---- MODULE Spec2Model ----
(***************************************************************************)
(* A state-machine model of the Tomasulo core (Tomasulo.py): one action    *)
(* per pipeline stage of runSimulation's cycle loop.  The orchestrator     *)
(* (issueStage ... commitStage, isNew, updateOutput, updateExitConditions) *)
(* is translated from Tomasulo.py.  The helper classes it calls (ROB, RAT, *)
(* ARF, BranchUnit, InstructionQueue, IntegerALU, FPALU, LdStQ and the     *)
(* 8-field reservation station) are modelled from their documented         *)
(* behaviour; ReservationStation.update / remove / isFull / add follow     *)
(* src/ReservationStation.py.                                              *)
(***************************************************************************)
EXTENDS Integers, Sequences, FiniteSets, TLC

VARIABLES
  Params,       \* the parsed input file: Instructions and the configuration
  IQ,           \* InstructionQueue: [next, total]
  ROB,          \* [q, head, tail, n]
  RAT,          \* register -> register name or ROB tag
  ARF,          \* register -> value
  RS_ALUIs, RS_ALUFPs, RS_MULTFPs,   \* reservation stations (sequences)
  ALUIs, ALUFPs, MULTFPs,            \* functional units (sequences)
  LDSTQ,        \* [q, port]
  memory,       \* MemoryUnit: [memory, flag]
  branch,       \* BranchUnit: [rat, target, pred]
  output,       \* completion record: ID -> <<IS, EX, MEM, WB, COM>>
  cycle, fetchOffset, done, saveRAT, RATBID,
  pc,           \* position in the body of runSimulation's loop
  crashed,      \* an uncaught Python exception ended the run
  hist          \* history of the run (observations only, never read by a stage)

vars == <<Params, IQ, ROB, RAT, ARF, RS_ALUIs, RS_ALUFPs, RS_MULTFPs, ALUIs,
          ALUFPs, MULTFPs, LDSTQ, memory, branch, output, cycle, fetchOffset,
          done, saveRAT, RATBID, pc, crashed, hist>>

-----------------------------------------------------------------------------
(* Bounds of the model *)
MaxLen == 4        \* length of the enumerated programs
MaxCycle == 24     \* the cycle counter is capped (a stuck run never ends)

-----------------------------------------------------------------------------
(* Names and values *)

None == 0 - 1                      \* Python's None in an integer-typed slot

\* Register names: R0..R3 are 0..3, F0..F1 are 4..5.
IntRegs == 0 .. 3
FPRegs == 4 .. 5
Regs == IntRegs \cup FPRegs
IsReg(x) == x \in Regs

\* f"ROB{k}"
ROBName(k) == 100 + k
IsROBName(x) == x >= 100 /\ x < 1000

\* a literal operand (an immediate, a displacement, a branch offset)
Lit(n) == 1000 + n
IsLit(x) == x >= 1000 - 50
LitVal(x) == x - 1000

\* Python values: None, int, float, bool
NoneV == [k |-> "none", n |-> 0]
IntV(n) == [k |-> "int", n |-> n]
FloatV(n) == [k |-> "float", n |-> n]
BoolV(b) == [k |-> "bool", n |-> IF b THEN 1 ELSE 0]
IsNone(v) == v.k = "none"
IsBool(v) == v.k = "bool"
\* int(x) and float(x); both raise TypeError on None
PyInt(v) == IntV(v.n)
PyFloat(v) == FloatV(v.n)
\* Python's == on numbers compares the numeric value (7 == 7.0, True == 1)
NumEq(v, w) == (~IsNone(v)) /\ (~IsNone(w)) /\ v.n = w.n

Min(a, b) == IF a < b THEN a ELSE b
Max(a, b) == IF a > b THEN a ELSE b

\* the elements of a sequence that satisfy Test, in order
SelectIdx(s, Test(_)) == {i \in 1 .. Len(s) : Test(s[i])}
RECURSIVE Filter(_, _)
Filter(s, keep) ==
  IF s = <<>> THEN <<>>
  ELSE IF keep[1] THEN <<s[1]>> \o Filter(Tail(s), Tail(keep))
       ELSE Filter(Tail(s), Tail(keep))

-----------------------------------------------------------------------------
(* InstructionQueue *)

IQ_empty(iq, prog, offset) == iq.next + offset >= Len(prog)
IQ_peek(iq, prog, offset) == prog[iq.next + offset + 1]
\* fetch returns (ID, instruction) and advances the PC by 1 + offset
IQ_fetchInst(iq, prog, offset) == <<iq.total, prog[iq.next + offset + 1]>>
IQ_fetch(iq, offset) == [next |-> iq.next + 1 + offset, total |-> iq.total + 1]
IQ_setPC(iq, newpc) == [iq EXCEPT !.next = newpc]

-----------------------------------------------------------------------------
(* ROB: a circular queue of slots [ID, destination, value, done, ROB#] *)

EmptySlot(k) == [id |-> None, dest |-> None, val |-> NoneV, done |-> FALSE, idx |-> k]
ROB_new(size) == [q |-> [k \in 1 .. size |-> EmptySlot(k - 1)],
                  head |-> 0, tail |-> 0, n |-> 0]
ROB_isFull(rob) == rob.n = Len(rob.q)
ROB_headSlot(rob) == rob.q[rob.head + 1]
ROB_add(rob, ID, dest) ==
  [q |-> [rob.q EXCEPT ![rob.tail + 1] =
            [id |-> ID, dest |-> dest, val |-> NoneV, done |-> FALSE, idx |-> rob.tail]],
   head |-> rob.head,
   tail |-> (rob.tail + 1) % Len(rob.q),
   n |-> rob.n + 1]
ROB_ids(rob) == {rob.q[k].id : k \in 1 .. Len(rob.q)} \ {None}
ROB_slotOf(rob, ID) == CHOOSE k \in 0 .. Len(rob.q) - 1 : rob.q[k + 1].id = ID
\* marks the entry done and writes its result; returns the slot's tag name
ROB_findAndUpdateEntry(rob, ID, value) ==
  IF ID \in ROB_ids(rob)
  THEN [rob EXCEPT !.q[ROB_slotOf(rob, ID) + 1].val = value,
                   !.q[ROB_slotOf(rob, ID) + 1].done = TRUE]
  ELSE rob
ROB_nameOf(rob, ID) ==
  IF ID \in ROB_ids(rob) THEN ROBName(ROB_slotOf(rob, ID)) ELSE None
ROB_markDone(rob, ID) ==
  IF ID \in ROB_ids(rob)
  THEN [rob EXCEPT !.q[ROB_slotOf(rob, ID) + 1].done = TRUE]
  ELSE rob
ROB_canCommit(rob) ==
  IF rob.n > 0 /\ ROB_headSlot(rob).done THEN ROB_headSlot(rob).id ELSE None
ROB_commit(rob) ==
  [q |-> [rob.q EXCEPT ![rob.head + 1] = EmptySlot(rob.head)],
   head |-> (rob.head + 1) % Len(rob.q),
   tail |-> rob.tail,
   n |-> rob.n - 1]
ROB_purgeAfterMispredict(rob, BID) ==
  LET dead == {k \in 1 .. Len(rob.q) : rob.q[k].id # None /\ rob.q[k].id > BID}
      left == rob.n - Cardinality(dead)
  IN [q |-> [k \in 1 .. Len(rob.q) |-> IF k \in dead THEN EmptySlot(k - 1) ELSE rob.q[k]],
      head |-> rob.head,
      tail |-> (rob.head + left) % Len(rob.q),
      n |-> left]

-----------------------------------------------------------------------------
(* RAT and ARF *)

RAT_new == [r \in Regs |-> r]
RAT_get(rat, x) == IF IsReg(x) THEN rat[x] ELSE x
RAT_set(rat, r, v) == IF IsReg(r) THEN [rat EXCEPT ![r] = v] ELSE rat
\* getMapping resolves the register operands of an instruction tuple
RAT_getMapping(rat, inst) ==
  <<inst[1], inst[2], RAT_get(rat, inst[3]), RAT_get(rat, inst[4])>>
RAT_getState(rat) == rat

ARF_get(arf, x) == IF IsReg(x) THEN arf[x] ELSE IntV(LitVal(x))
ARF_set(arf, r, v) == IF IsReg(r) THEN [arf EXCEPT ![r] = v] ELSE arf

-----------------------------------------------------------------------------
(* BranchUnit: per branch ID the RAT checkpoint, the misprediction target  *)
(* and a 1-bit prediction (initially not taken)                            *)

BU_new == [rat |-> <<>>, target |-> <<>>, pred |-> <<>>]
BU_predict(bu, bid) == IF bid \in DOMAIN bu.pred THEN bu.pred[bid] ELSE FALSE
BU_put(f, k, v) == [x \in (DOMAIN f) \cup {k} |-> IF x = k THEN v ELSE f[x]]
BU_saveRAT(bu, bid, snapshot) == [bu EXCEPT !.rat = BU_put(bu.rat, bid, snapshot)]
BU_setMispredictTarget(bu, bid, target) ==
  [bu EXCEPT !.target = BU_put(bu.target, bid, target)]
BU_getMispredictTarget(bu, bid) == bu.target[bid]
BU_rollBack(bu, bid) == bu.rat[bid]
BU_update(bu, bid, outcome) == [bu EXCEPT !.pred = BU_put(bu.pred, bid, outcome)]

-----------------------------------------------------------------------------
(* ReservationStation: entries [ID, ROB tag, op, Qi, Qj, Vi, Vj, executing] *)

RSEntry(ID, ROBId, op, q1, q2, v1, v2) ==
  [id |-> ID, rob |-> ROBId, op |-> op, q1 |-> q1, q2 |-> q2,
   v1 |-> v1, v2 |-> v2, exec |-> FALSE]
RS_isFull(rs, size) == Len(rs) = size
RS_add(rs, entry) == Append(rs, entry)
RECURSIVE RS_remove(_, _)
RS_remove(rs, instructionID) ==
  IF rs = <<>> THEN <<>>
  ELSE IF rs[1].id = instructionID THEN Tail(rs)
       ELSE <<rs[1]>> \o RS_remove(Tail(rs), instructionID)
RS_updateEntryFirstOnly(e, tag, value) ==
  [e EXCEPT !.q1 = IF e.q1 = tag THEN None ELSE e.q1,
            !.v1 = IF e.q1 = tag THEN value ELSE e.v1]
RS_updateEntry(e, tag, value) ==
  [e EXCEPT !.q1 = IF e.q1 = tag THEN None ELSE e.q1,
            !.v1 = IF e.q1 = tag THEN value ELSE e.v1,
            !.q2 = IF e.q2 = tag THEN None ELSE e.q2,
            !.v2 = IF e.q2 = tag THEN value ELSE e.v2]
RS_update(rs, tag, value) == [i \in 1 .. Len(rs) |-> RS_updateEntry(rs[i], tag, value)]
RS_markAsExecuting(rs, ids) ==
  [i \in 1 .. Len(rs) |-> IF rs[i].id \in ids THEN [rs[i] EXCEPT !.exec = TRUE] ELSE rs[i]]
RS_purgeAfterMispredict(rs, BID) ==
  Filter(rs, [i \in 1 .. Len(rs) |-> rs[i].id <= BID])
RS_ids(rs) == {rs[i].id : i \in 1 .. Len(rs)}

-----------------------------------------------------------------------------
(* Functional units: one instruction at a time, a countdown, then a result *)

FU_idle == [busy |-> FALSE, id |-> None, res |-> NoneV, rem |-> 0]
ALU_compute(op, a, b) ==
  CASE op \in {"ADD", "ADDI"} -> IntV(a.n + b.n)
    [] op \in {"SUB", "SUBI"} -> IntV(a.n - b.n)
    [] op = "BEQ" -> BoolV(a.n = b.n)
    [] op = "BNE" -> BoolV(a.n # b.n)
    [] op = "ADD.D" -> FloatV(a.n + b.n)
    [] op = "SUB.D" -> FloatV(a.n - b.n)
    [] op = "MULT.D" -> FloatV(a.n * b.n)
FU_busy(fu) == fu.busy
FU_execute(fu, ID, op, a, b, latency) ==
  [busy |-> TRUE, id |-> ID, res |-> ALU_compute(op, a, b), rem |-> latency]
FU_isResultReady(fu) == fu.busy /\ fu.rem = 0 /\ ~IsBool(fu.res)
FU_isBranchOutcomePending(fu) == fu.busy /\ fu.rem = 0 /\ IsBool(fu.res)
FU_getResultID(fu) == fu.id
FU_advanceTime(fu) == IF fu.busy THEN [fu EXCEPT !.rem = Max(0, fu.rem - 1)] ELSE fu
FU_purgeAfterMispredict(fu, BID) == IF fu.busy /\ fu.id > BID THEN FU_idle ELSE fu
FUs_purge(fus, BID) == [i \in 1 .. Len(fus) |-> FU_purgeAfterMispredict(fus[i], BID)]
FUs_advance(fus) == [i \in 1 .. Len(fus) |-> FU_advanceTime(fus[i])]
FUs_ids(fus) == {fus[i].id : i \in {j \in 1 .. Len(fus) : fus[j].busy}}

-----------------------------------------------------------------------------
(* MemoryUnit *)

MemWords == 64
TruncDiv4(a) == IF a >= 0 THEN a \div 4 ELSE 0 - ((0 - a) \div 4)
\* Python list indexing: a negative index counts from the end
PyIndexOK(i) == i >= 0 - MemWords /\ i < MemWords
PyIndex(i) == IF i < 0 THEN i + MemWords ELSE i
Mem_new == [memory |-> [w \in 0 .. MemWords - 1 |-> IntV(0)],
            flag |-> [w \in 0 .. MemWords - 1 |-> 0]]
\* mem_write returns [ok, err, mem]; ok = FALSE is a raised error, err says
\* which: "range" is the ValueError that names the address, "index" is the
\* IndexError of the list access
memory_max_length == 256
MemOK(mem) == [ok |-> TRUE, err |-> "none", mem |-> mem]
MemErr(mem, err) == [ok |-> FALSE, err |-> err, mem |-> mem]
Mem_writeInt(mem, addr, value) ==
  LET idx == TruncDiv4(addr) IN
  IF addr > 256 \/ addr < 0 THEN MemErr(mem, "range")
  ELSE IF ~PyIndexOK(idx) THEN MemErr(mem, "index")
  ELSE IF mem.flag[idx] # 0
  THEN LET tmp == mem.flag[idx] IN
       IF ~PyIndexOK(idx + tmp) THEN MemErr(mem, "index")
       ELSE MemOK([memory |-> [[mem.memory EXCEPT ![idx] = value]
                                  EXCEPT ![PyIndex(idx + tmp)] = IntV(0)],
                   flag |-> [[mem.flag EXCEPT ![PyIndex(idx + tmp)] = 0]
                                  EXCEPT ![idx] = 0]])
  ELSE MemOK([mem EXCEPT !.memory[idx] = value])
Mem_writeFloat(mem, addr, value) ==
  LET idx == TruncDiv4(addr) IN
  IF addr > 252 \/ addr < 0 THEN MemErr(mem, "range")
  ELSE MemOK([memory |-> [mem.memory EXCEPT ![idx] = value],
              flag |-> [mem.flag EXCEPT ![idx] = 0 - 1]])
Mem_write(mem, addr, value) ==
  IF value.k \in {"int", "bool"} THEN Mem_writeInt(mem, addr, value)
  ELSE IF value.k = "float" THEN Mem_writeFloat(mem, addr, value)
  ELSE MemOK(mem)
Mem_readOK(addr) == PyIndexOK(TruncDiv4(addr))
Mem_read(mem, addr) == mem.memory[PyIndex(TruncDiv4(addr))]

-----------------------------------------------------------------------------
(* LdStQ: loads and stores in program order, and the single memory port.   *)
(* Entry: instruction ID, op, store data (or its tag), the address slot    *)
(* (the base, or its tag; the byte address once computed), displacement,   *)
(* and the flags "address computed", "issued to memory", "result ready".   *)

Stuck == 0 - 2     \* an address or data slot that holds None
Port_idle == [busy |-> FALSE, id |-> None, val |-> NoneV, rem |-> 0]
LSQ_new == [q |-> <<>>, port |-> Port_idle]
LSQ_isFull(lsq, size) == Len(lsq.q) = size
LSQ_add(lsq, ID, op, data, dtag, addr, atag, disp) ==
  [lsq EXCEPT !.q = Append(lsq.q,
     [id |-> ID, op |-> op, data |-> data, dtag |-> dtag, addr |-> addr,
      atag |-> atag, disp |-> disp, computed |-> FALSE, issued |-> FALSE,
      ready |-> FALSE, result |-> NoneV])]
LSQ_busy(lsq) == lsq.port.busy
\* the address computation: byteAddr = 4 * base + displacement
LSQ_executeStage(lsq, i) ==
  [lsq EXCEPT !.q[i].addr = 4 * lsq.q[i].addr + lsq.q[i].disp,
              !.q[i].computed = TRUE]
\* a store is ready once its address is computed and its data has no tag
LSQ_instructionReady(e) == e.computed /\ e.dtag = None
LSQ_updateEntry(e, tag, value) ==
  LET hitD == e.op = "SD" /\ e.dtag = tag
      hitA == (~e.computed) /\ e.atag = tag
  IN [e EXCEPT !.data = IF hitD THEN value ELSE e.data,
               !.dtag = IF hitD THEN (IF IsNone(value) THEN Stuck ELSE None) ELSE e.dtag,
               !.addr = IF hitA THEN value.n ELSE e.addr,
               !.atag = IF hitA THEN (IF IsNone(value) THEN Stuck ELSE None) ELSE e.atag]
LSQ_update(lsq, tag, value) ==
  IF tag = None THEN lsq
  ELSE [lsq EXCEPT !.q = [i \in 1 .. Len(lsq.q) |-> LSQ_updateEntry(lsq.q[i], tag, value)]]
LSQ_ids(lsq) == {lsq.q[i].id : i \in 1 .. Len(lsq.q)}
LSQ_pending(e) == e.op = "LD" /\ e.computed /\ (~e.issued) /\ (~e.ready)
\* the older stores a load at position i may forward from
LSQ_fwdSources(q, i) ==
  {j \in 1 .. i - 1 : q[j].op = "SD" /\ q[j].computed /\ q[j].addr = q[i].addr
                       /\ q[j].dtag = None}
LSQ_youngest(S) == CHOOSE j \in S : \A k \in S : k <= j
LSQ_oldest(S) == CHOOSE j \in S : \A k \in S : j <= k
LSQ_fwdLoads(q) == {i \in 1 .. Len(q) : LSQ_pending(q[i]) /\ LSQ_fwdSources(q, i) # {}}
\* doForwards returns the forwarded load's ID, or -1
LSQ_doForwardsRet(lsq) ==
  IF LSQ_fwdLoads(lsq.q) = {} THEN None ELSE lsq.q[LSQ_oldest(LSQ_fwdLoads(lsq.q))].id
LSQ_doForwards(lsq) ==
  IF LSQ_fwdLoads(lsq.q) = {} THEN lsq
  ELSE LET i == LSQ_oldest(LSQ_fwdLoads(lsq.q))
           j == LSQ_youngest(LSQ_fwdSources(lsq.q, i))
       IN [lsq EXCEPT !.q[i].result = lsq.q[j].data, !.q[i].ready = TRUE]
\* an alias hazard: an older store to the same address with unresolved data
LSQ_hazard(q, i) ==
  \E j \in 1 .. i - 1 : q[j].op = "SD" /\ q[j].computed /\ q[j].addr = q[i].addr
                        /\ q[j].dtag # None
LSQ_readyLoads(lsq) ==
  IF lsq.port.busy THEN {}
  ELSE {i \in 1 .. Len(lsq.q) : LSQ_pending(lsq.q[i]) /\ ~LSQ_hazard(lsq.q, i)}
LSQ_issueReadyLoadRet(lsq) ==
  IF LSQ_readyLoads(lsq) = {} THEN None ELSE lsq.q[LSQ_oldest(LSQ_readyLoads(lsq))].id
\* the read raises IndexError for an address outside the memory
LSQ_issueReadyLoadOK(lsq) ==
  LSQ_readyLoads(lsq) = {} \/ Mem_readOK(lsq.q[LSQ_oldest(LSQ_readyLoads(lsq))].addr)
LSQ_issueReadyLoad(lsq, mem, latency) ==
  IF LSQ_readyLoads(lsq) = {} THEN lsq
  ELSE LET i == LSQ_oldest(LSQ_readyLoads(lsq))
       IN [q |-> [lsq.q EXCEPT ![i].issued = TRUE],
           port |-> [busy |-> TRUE, id |-> lsq.q[i].id,
                     val |-> Mem_read(mem, lsq.q[i].addr), rem |-> latency]]
\* the memory port hands a finished load to its queue entry
LSQ_checkMMU(lsq) ==
  IF lsq.port.busy /\ lsq.port.rem = 0
  THEN [q |-> [i \in 1 .. Len(lsq.q) |->
                 IF lsq.q[i].id = lsq.port.id
                 THEN [lsq.q[i] EXCEPT !.result = lsq.port.val, !.ready = TRUE]
                 ELSE lsq.q[i]],
        port |-> Port_idle]
  ELSE lsq
LSQ_readyIdx(lsq) == {i \in 1 .. Len(lsq.q) : lsq.q[i].op = "LD" /\ lsq.q[i].ready}
LSQ_isResultReady(lsq) == LSQ_readyIdx(lsq) # {}
LSQ_getResultID(lsq) == lsq.q[LSQ_oldest(LSQ_readyIdx(lsq))].id
LSQ_getResultVal(lsq) == lsq.q[LSQ_oldest(LSQ_readyIdx(lsq))].result
LSQ_getResult(lsq) ==
  [lsq EXCEPT !.q = Filter(lsq.q, [i \in 1 .. Len(lsq.q) |->
                                      i # LSQ_oldest(LSQ_readyIdx(lsq))])]
\* the store at the head of the queue is written to memory
LSQ_storeAtHead(lsq) ==
  lsq.q # <<>> /\ lsq.q[1].op = "SD" /\ LSQ_instructionReady(lsq.q[1])
LSQ_issueReadyStoreRet(lsq) == IF LSQ_storeAtHead(lsq) THEN lsq.q[1].id ELSE None
LSQ_issueReadyStoreMem(lsq, mem) ==
  IF LSQ_storeAtHead(lsq) THEN Mem_write(mem, lsq.q[1].addr, lsq.q[1].data)
  ELSE MemOK(mem)
LSQ_issueReadyStore(lsq) ==
  IF LSQ_storeAtHead(lsq) THEN [lsq EXCEPT !.q = Tail(lsq.q)] ELSE lsq
LSQ_purgeAfterMispredict(lsq, BID) ==
  [q |-> Filter(lsq.q, [i \in 1 .. Len(lsq.q) |-> lsq.q[i].id <= BID]),
   port |-> IF lsq.port.busy /\ lsq.port.id > BID THEN Port_idle ELSE lsq.port]
LSQ_advanceTime(lsq) ==
  IF lsq.port.busy THEN [lsq EXCEPT !.port.rem = Max(0, lsq.port.rem - 1)] ELSE lsq

-----------------------------------------------------------------------------
(* Tomasulo: the orchestrator.  A stage is an operator from the state of   *)
(* the Tomasulo object (a record s with one field per attribute) to the    *)
(* state after the stage.                                                  *)

\* updateOutput: the first call for an ID creates its record with the issue cycle
updateOutput(out, cyc, ID, stage) ==
  IF ID \notin DOMAIN out
  THEN [x \in (DOMAIN out) \cup {ID} |->
          IF x = ID THEN <<cyc, None, None, None, None>> ELSE out[x]]
  ELSE [out EXCEPT ![ID][stage + 1] = cyc]

\* the most recent stage of the record that is not None
LastStage(rec) ==
  IF rec[5] # None THEN rec[5]
  ELSE IF rec[4] # None THEN rec[4]
  ELSE IF rec[3] # None THEN rec[3]
  ELSE IF rec[2] # None THEN rec[2]
  ELSE rec[1]

isNew(out, cyc, ID) == LastStage(out[ID]) = cyc

nothingToFetch(s) == IQ_empty(s.IQ, s.Params.Instructions, s.fetchOffset)
stillExecuting(s) == Cardinality({x \in DOMAIN s.output : s.output[x][5] = None})
updateExitConditionsIgnoresInFlight(s) ==
  IF nothingToFetch(s) THEN [s EXCEPT !.done = TRUE] ELSE s
updateExitConditions(s) ==
  IF nothingToFetch(s) /\ stillExecuting(s) = 0 THEN [s EXCEPT !.done = TRUE] ELSE s

-----------------------------------------------------------------------------
(* issueStage *)

IsBranchOp(name) == name \in {"BNE", "BEQ"}
IsMemOp(name) == name \in {"LD", "SD"}

TargetNeverFull(s, nextName) == FALSE
\* the isFull check of the structure the next instruction goes to
TargetFull(s, nextName) ==
  IF IsMemOp(nextName) THEN LSQ_isFull(s.LDSTQ, s.Params.LoadStoreUnit[1])
  ELSE IF nextName \in {"ADD.D", "SUB.D"} THEN RS_isFull(s.RS_ALUFPs, s.Params.ALUFP[1])
  ELSE IF nextName = "MULT.D" THEN RS_isFull(s.RS_MULTFPs, s.Params.MULTFP[1])
  ELSE RS_isFull(s.RS_ALUIs, s.Params.ALUI[1])

\* back-fill of one captured tag from a ROB head that has completed
BackFillTag(head, hname, q) == IF head.done /\ hname = q THEN None ELSE q
BackFillVal(head, hname, q, v) == IF head.done /\ hname = q THEN head.val ELSE v

\* operand capture of a branch and of an arithmetic instruction: for each
\* source the ARF value when the RAT maps the register to itself, else the tag
CaptureTag(map, operand) == IF map = operand THEN None ELSE map
CaptureVal(arf, map, operand) == IF map = operand THEN ARF_get(arf, map) ELSE NoneV
CaptureRS(s, rob1, ID, ROBId, inst) ==
  LET isBr == IsBranchOp(inst[1])
      op1 == IF isBr THEN inst[2] ELSE inst[3]
      op2 == IF isBr THEN inst[3] ELSE inst[4]
      map1 == RAT_get(s.RAT, op1)
      map2 == RAT_get(s.RAT, op2)
      q1 == CaptureTag(map1, op1)
      q2 == CaptureTag(map2, op2)
      v1 == CaptureVal(s.ARF, map1, op1)
      v2 == CaptureVal(s.ARF, map2, op2)
      head == ROB_headSlot(rob1)
      hname == ROBName(rob1.head)
  IN RSEntry(ID, ROBId, inst[1],
             BackFillTag(head, hname, q1), BackFillTag(head, hname, q2),
             BackFillVal(head, hname, q1, v1), BackFillVal(head, hname, q2, v2))

\* operand capture of LD / SD: the base goes to the address slot, the store
\* data (SD) or the load's own ROB tag (LD) to the data slot
CaptureLdSt(s, rob1, ROBId, inst) ==
  LET name == inst[1]
      base == inst[4]
      dreg == inst[2]
      baseInARF == RAT_get(s.RAT, base) = base
      dataInARF == RAT_get(s.RAT, dreg) = dreg
      atag0 == IF baseInARF THEN None ELSE RAT_get(s.RAT, base)
      addr0 == IF baseInARF THEN PyInt(ARF_get(s.ARF, base)).n ELSE 0
      dtag0 == IF name = "SD" THEN (IF dataInARF THEN None ELSE RAT_get(s.RAT, dreg))
               ELSE ROBId
      data0 == IF name = "SD" /\ dataInARF THEN PyFloat(ARF_get(s.ARF, dreg)) ELSE NoneV
      head == ROB_headSlot(rob1)
      hname == ROBName(rob1.head)
      hitD == head.done /\ name = "SD" /\ hname = dtag0
      hitA == head.done /\ hname = atag0
  IN [data |-> IF hitD THEN PyFloat(head.val) ELSE data0,
      dtag |-> IF hitD THEN None ELSE dtag0,
      addr |-> IF hitA THEN 4 * PyInt(head.val).n ELSE addr0,
      atag |-> IF hitA THEN None ELSE atag0,
      raised |-> (hitD \/ hitA) /\ IsNone(head.val)]

\* the renamed source operands of the instruction being issued: consumer,
\* producer (the occupant of the ROB slot the RAT names) and the operand's role
SourcesOf(inst) ==
  IF inst[1] = "SD" THEN {[r |-> inst[4], role |-> "base"], [r |-> inst[2], role |-> "data"]}
  ELSE IF inst[1] = "LD" THEN {[r |-> inst[4], role |-> "base"]}
  ELSE IF IsBranchOp(inst[1])
  THEN {[r |-> inst[2], role |-> "src"], [r |-> inst[3], role |-> "src"]}
  ELSE {[r |-> inst[3], role |-> "src"], [r |-> inst[4], role |-> "src"]}
DepsOf(s, ID, inst) ==
  {[c |-> ID, p |-> s.ROB.q[RAT_get(s.RAT, o.r) - 100 + 1].id, role |-> o.role,
    tag |-> RAT_get(s.RAT, o.r)] :
     o \in {x \in SourcesOf(inst) :
              /\ IsReg(x.r) /\ IsROBName(RAT_get(s.RAT, x.r))
              /\ s.ROB.q[RAT_get(s.RAT, x.r) - 100 + 1].id # None}}

\* the sources of the instruction being issued that the back-fill from a
\* completed ROB head fills
BackFilled(s, rob1, ID, inst) ==
  LET head == ROB_headSlot(rob1)
      hname == ROBName(rob1.head)
  IN IF ~head.done THEN {}
     ELSE {[c |-> ID, tag |-> hname, src |-> head.id, val |-> head.val, by |-> "issue"] :
             o \in {x \in SourcesOf(inst) : IsReg(x.r) /\ RAT_get(s.RAT, x.r) = hname}}

\* how the base of a load or store is captured: the tag the RAT gives for
\* the base register, or the value the ARF holds
BaseAtIssue(s, inst) ==
  IF RAT_get(s.RAT, inst[4]) = inst[4]
  THEN [tag |-> None, val |-> ARF_get(s.ARF, inst[4])]
  ELSE [tag |-> RAT_get(s.RAT, inst[4]), val |-> NoneV]

\* the instruction at the fetch offset is fetched, renamed and placed
issueInst(s) ==
  LET prog == s.Params.Instructions
      nextInst == IQ_fetchInst(s.IQ, prog, s.fetchOffset)
      ID == nextInst[1]
      inst == nextInst[2]
      nextName == inst[1]
      iq1 == IQ_fetch(s.IQ, s.fetchOffset)
      isBr == IsBranchOp(nextName)
      predictTaken == BU_predict(s.branch, ID)
      offset == LitVal(inst[4])
      branch1 == IF ~isBr THEN s.branch
                 ELSE BU_setMispredictTarget(s.branch, ID,
                        IF predictTaken THEN iq1.next ELSE iq1.next + offset)
      ROBId == ROBName(s.ROB.tail)
      rob1 == ROB_add(s.ROB, ID, inst[2])
      ls == CaptureLdSt(s, rob1, ROBId, inst)
      entry == CaptureRS(s, rob1, ID, ROBId, inst)
      rat1 == IF isBr \/ nextName = "SD" THEN s.RAT ELSE RAT_set(s.RAT, inst[2], ROBId)
  IN [s EXCEPT
        !.IQ = iq1,
        !.fetchOffset = IF isBr /\ predictTaken THEN offset ELSE 0,
        !.saveRAT = IF isBr THEN TRUE ELSE s.saveRAT,
        !.RATBID = IF isBr THEN ID ELSE s.RATBID,
        !.branch = branch1,
        !.ROB = rob1,
        !.RAT = rat1,
        !.RS_ALUFPs = IF nextName \in {"ADD.D", "SUB.D"} THEN RS_add(s.RS_ALUFPs, entry)
                      ELSE s.RS_ALUFPs,
        !.RS_MULTFPs = IF nextName = "MULT.D" THEN RS_add(s.RS_MULTFPs, entry)
                       ELSE s.RS_MULTFPs,
        !.LDSTQ = IF IsMemOp(nextName)
                  THEN LSQ_add(s.LDSTQ, ID, nextName, ls.data, ls.dtag, ls.addr,
                               ls.atag, LitVal(inst[3]))
                  ELSE s.LDSTQ,
        !.RS_ALUIs = IF IsMemOp(nextName) \/ nextName \in {"ADD.D", "SUB.D", "MULT.D"}
                     THEN s.RS_ALUIs ELSE RS_add(s.RS_ALUIs, entry),
        !.output = updateOutput(s.output, s.cycle, ID, 0),
        !.crashed = IsMemOp(nextName) /\ ls.raised,
        !.hist.issued = s.hist.issued \cup {ID},
        !.hist.pos = BU_put(s.hist.pos, ID, s.IQ.next + s.fetchOffset),
        !.hist.base = IF IsMemOp(nextName)
                      THEN BU_put(s.hist.base, ID, BaseAtIssue(s, inst))
                      ELSE s.hist.base,
        !.hist.deps = s.hist.deps \cup DepsOf(s, ID, inst),
        !.hist.fills = s.hist.fills \cup BackFilled(s, rob1, ID, inst),
        !.hist.lastIssue = [id |-> ID, cycle |-> s.cycle,
                            idx |-> s.IQ.next + s.fetchOffset]]

\* a stall is noted in hist: the cycle, the index of the instruction, the cause
Stall(s, why) ==
  [s EXCEPT !.hist.stall = [cycle |-> s.cycle, idx |-> s.IQ.next + s.fetchOffset,
                            why |-> why]]

\* the issue stage that fetches before it looks at the target structure
issueStageFetchesFirst(s) ==
  IF nothingToFetch(s) THEN s
  ELSE IF ROB_isFull(s.ROB) THEN Stall(s, "rob")
  ELSE IF TargetFull(s, IQ_peek(s.IQ, s.Params.Instructions, s.fetchOffset)[1])
  THEN Stall([s EXCEPT !.IQ = IQ_fetch(s.IQ, s.fetchOffset)], "target")
  ELSE issueInst(s)

\* the issue stage that does not look at the ROB before it issues
issueStageIgnoresFullROB(s) ==
  IF nothingToFetch(s) THEN s
  ELSE IF TargetFull(s, IQ_peek(s.IQ, s.Params.Instructions, s.fetchOffset)[1])
  THEN Stall(s, "target")
  ELSE issueInst(s)

issueStage(s) ==
  IF nothingToFetch(s) THEN s
  ELSE IF ROB_isFull(s.ROB) THEN Stall(s, "rob")
  ELSE IF TargetFull(s, IQ_peek(s.IQ, s.Params.Instructions, s.fetchOffset)[1])
  THEN Stall(s, "target")
  ELSE issueInst(s)

-----------------------------------------------------------------------------
(* executeStage *)

\* an entry may be dispatched: both values present, not executing, not new
IsReady(s, x) ==
  (~IsNone(x.v1)) /\ (~IsNone(x.v2)) /\ (~x.exec) /\ ~isNew(s.output, s.cycle, x.id)
ReadyList(s, rs) == Filter(rs, [i \in 1 .. Len(rs) |-> IsReady(s, rs[i])])

\* the first LSQ entry, not new, whose address slot holds an integer and
\* whose address is not computed yet (0 when there is none or the LSQ is busy)
AddrCandidate(s) ==
  LET q == s.LDSTQ.q
      C == {i \in 1 .. Len(q) : (~isNew(s.output, s.cycle, q[i].id))
                                /\ q[i].atag = None /\ ~q[i].computed}
  IN IF LSQ_busy(s.LDSTQ) \/ C = {} THEN 0 ELSE LSQ_oldest(C)
computeAddress(s) ==
  LET i == AddrCandidate(s) IN
  IF i = 0 THEN s
  ELSE [s EXCEPT !.LDSTQ = LSQ_executeStage(s.LDSTQ, i),
                 !.output = updateOutput(s.output, s.cycle, s.LDSTQ.q[i].id, 1)]

\* stores whose address and data are ready are marked done in the ROB
ReadyStores(s) ==
  {s.LDSTQ.q[i].id : i \in {j \in 1 .. Len(s.LDSTQ.q) :
       s.LDSTQ.q[j].op = "SD" /\ LSQ_instructionReady(s.LDSTQ.q[j])}}
markStores(s) ==
  [s EXCEPT !.ROB.q = [k \in 1 .. Len(s.ROB.q) |->
     IF s.ROB.q[k].id \in ReadyStores(s)
     THEN [s.ROB.q[k] EXCEPT !.done = TRUE] ELSE s.ROB.q[k]]]

\* the dispatch loop without the test of FU.busy()
RECURSIVE DispatchOntoBusy(_, _, _, _, _, _)
DispatchOntoBusy(fus, ready, i, curPos, latency, issued) ==
  IF i > Len(fus) \/ curPos > Len(ready) THEN [fus |-> fus, ids |-> issued]
  ELSE DispatchOntoBusy([fus EXCEPT ![i] = FU_execute(fus[i], ready[curPos].id,
                                       ready[curPos].op, ready[curPos].v1,
                                       ready[curPos].v2, latency)],
                        ready, i + 1, curPos + 1, latency, issued \cup {ready[curPos].id})

\* the units of one class that accepted an instruction in this call
Accepted(s, kind, fus0, fus1) ==
  {[id |-> fus1[i].id, cycle |-> s.cycle, kind |-> kind, unit |-> i] :
     i \in {j \in 1 .. Len(fus0) : fus1[j] # fus0[j]}}

\* the ready entries are handed, in order, to the units that are not busy:
\* the result is the units after dispatch and the IDs dispatched
RECURSIVE Dispatch(_, _, _, _, _, _)
Dispatch(fus, ready, i, curPos, latency, issued) ==
  IF i > Len(fus) \/ curPos > Len(ready) THEN [fus |-> fus, ids |-> issued]
  ELSE IF FU_busy(fus[i]) THEN Dispatch(fus, ready, i + 1, curPos, latency, issued)
  ELSE Dispatch([fus EXCEPT ![i] = FU_execute(fus[i], ready[curPos].id, ready[curPos].op,
                                              ready[curPos].v1, ready[curPos].v2, latency)],
                ready, i + 1, curPos + 1, latency, issued \cup {ready[curPos].id})

RECURSIVE markOutput(_, _, _, _)
markOutput(out, cyc, ids, stage) ==
  IF ids = {} THEN out
  ELSE LET x == CHOOSE y \in ids : TRUE
       IN markOutput(updateOutput(out, cyc, x, stage), cyc, ids \ {x}, stage)

executeStage(s) ==
  LET dI == Dispatch(s.ALUIs, ReadyList(s, s.RS_ALUIs), 1, 1, s.Params.ALUI[2], {})
      dA == Dispatch(s.ALUFPs, ReadyList(s, s.RS_ALUFPs), 1, 1, s.Params.ALUFP[2], {})
      dM == Dispatch(s.MULTFPs, ReadyList(s, s.RS_MULTFPs), 1, 1, s.Params.MULTFP[2], {})
      ids == dI.ids \cup dA.ids \cup dM.ids
      s1 == markStores(computeAddress(s))
  IN [s1 EXCEPT !.ALUIs = dI.fus, !.ALUFPs = dA.fus, !.MULTFPs = dM.fus,
                !.output = markOutput(s1.output, s.cycle, ids, 1),
                !.RS_ALUIs = RS_markAsExecuting(s.RS_ALUIs, ids),
                !.RS_ALUFPs = RS_markAsExecuting(s.RS_ALUFPs, ids),
                !.RS_MULTFPs = RS_markAsExecuting(s.RS_MULTFPs, ids),
                !.hist.disp = s.hist.disp \cup Accepted(s, "ALUI", s.ALUIs, dI.fus)
                                \cup Accepted(s, "ALUFP", s.ALUFPs, dA.fus)
                                \cup Accepted(s, "MULTFP", s.MULTFPs, dM.fus)]

-----------------------------------------------------------------------------
(* checkBranchStage *)

\* the completion-record entries of the instructions after the branch are deleted
PurgeOutputKeepsAll(out, BID) == out
PurgeOutput(out, BID) == [x \in {y \in DOMAIN out : y <= BID} |-> out[x]]

\* the recovery that purges from BID + 2 on
squashSparesNext(s, BID, prediction) ==
  [s EXCEPT !.RAT = BU_rollBack(s.branch, BID),
            !.RS_ALUIs = RS_purgeAfterMispredict(s.RS_ALUIs, BID + 1),
            !.RS_ALUFPs = RS_purgeAfterMispredict(s.RS_ALUFPs, BID + 1),
            !.RS_MULTFPs = RS_purgeAfterMispredict(s.RS_MULTFPs, BID + 1),
            !.ALUIs = FUs_purge(s.ALUIs, BID + 1),
            !.ALUFPs = FUs_purge(s.ALUFPs, BID + 1),
            !.MULTFPs = FUs_purge(s.MULTFPs, BID + 1),
            !.LDSTQ = LSQ_purgeAfterMispredict(s.LDSTQ, BID + 1),
            !.ROB = ROB_purgeAfterMispredict(s.ROB, BID + 1),
            !.IQ = IQ_setPC(s.IQ, BU_getMispredictTarget(s.branch, BID)),
            !.fetchOffset = 0,
            !.branch = BU_update(s.branch, BID, ~prediction),
            !.output = PurgeOutput(s.output, BID + 1),
            !.hist.squashed = s.hist.squashed \cup {y \in s.hist.issued : y > BID},
            !.hist.sqB = s.hist.sqB \cup {BID},
            !.hist.restored = BU_put(s.hist.restored, BID, BU_rollBack(s.branch, BID))]

\* the recovery that leaves the program counter of the IQ where it is
squashKeepsPC(s, BID, prediction) ==
  [s EXCEPT !.RAT = BU_rollBack(s.branch, BID),
            !.RS_ALUIs = RS_purgeAfterMispredict(s.RS_ALUIs, BID),
            !.RS_ALUFPs = RS_purgeAfterMispredict(s.RS_ALUFPs, BID),
            !.RS_MULTFPs = RS_purgeAfterMispredict(s.RS_MULTFPs, BID),
            !.ALUIs = FUs_purge(s.ALUIs, BID),
            !.ALUFPs = FUs_purge(s.ALUFPs, BID),
            !.MULTFPs = FUs_purge(s.MULTFPs, BID),
            !.LDSTQ = LSQ_purgeAfterMispredict(s.LDSTQ, BID),
            !.ROB = ROB_purgeAfterMispredict(s.ROB, BID),
            !.fetchOffset = 0,
            !.branch = BU_update(s.branch, BID, ~prediction),
            !.output = PurgeOutput(s.output, BID),
            !.hist.squashed = s.hist.squashed \cup {y \in s.hist.issued : y > BID},
            !.hist.sqB = s.hist.sqB \cup {BID},
            !.hist.restored = BU_put(s.hist.restored, BID, BU_rollBack(s.branch, BID))]

\* recovery from the misprediction of branch BID
squash(s, BID, prediction) ==
  [s EXCEPT !.RAT = BU_rollBack(s.branch, BID),
            !.RS_ALUIs = RS_purgeAfterMispredict(s.RS_ALUIs, BID),
            !.RS_ALUFPs = RS_purgeAfterMispredict(s.RS_ALUFPs, BID),
            !.RS_MULTFPs = RS_purgeAfterMispredict(s.RS_MULTFPs, BID),
            !.ALUIs = FUs_purge(s.ALUIs, BID),
            !.ALUFPs = FUs_purge(s.ALUFPs, BID),
            !.MULTFPs = FUs_purge(s.MULTFPs, BID),
            !.LDSTQ = LSQ_purgeAfterMispredict(s.LDSTQ, BID),
            !.ROB = ROB_purgeAfterMispredict(s.ROB, BID),
            !.IQ = IQ_setPC(s.IQ, BU_getMispredictTarget(s.branch, BID)),
            !.fetchOffset = 0,
            !.branch = BU_update(s.branch, BID, ~prediction),
            !.output = PurgeOutput(s.output, BID),
            !.hist.squashed = s.hist.squashed \cup {y \in s.hist.issued : y > BID},
            !.hist.sqB = s.hist.sqB \cup {BID},
            !.hist.restored = BU_put(s.hist.restored, BID, BU_rollBack(s.branch, BID))]

\* the branch outcome of unit i, if one is pending, is processed
checkBranchFU(s, i) ==
  IF ~FU_isBranchOutcomePending(s.ALUIs[i]) THEN s
  ELSE LET BID == s.ALUIs[i].id
           outcome == s.ALUIs[i].res.n = 1
           prediction == BU_predict(s.branch, BID)
           s1 == [s EXCEPT !.ALUIs[i] = FU_idle]
           s2 == IF outcome # prediction THEN squash(s1, BID, prediction) ELSE s1
       IN [s2 EXCEPT !.ROB = ROB_findAndUpdateEntry(s2.ROB, BID, BoolV(outcome)),
                     !.RS_ALUIs = RS_remove(s2.RS_ALUIs, BID),
                     !.hist.outcome = BU_put(s2.hist.outcome, BID, outcome)]

RECURSIVE checkBranchFrom(_, _)
checkBranchFrom(s, i) ==
  IF i > Len(s.ALUIs) THEN s ELSE checkBranchFrom(checkBranchFU(s, i), i + 1)

checkBranchStage(s) == checkBranchFrom([s EXCEPT !.hist.sqB = {}], 1)

-----------------------------------------------------------------------------
(* memoryStage *)

\* what the stage did to load ID, seen from the queue before the stage (an
\* observation kept in hist)
MemEvent(lsq, kind, ID) ==
  LET q == lsq.q
      i == CHOOSE k \in 1 .. Len(q) : q[k].id = ID
      older == {j \in 1 .. i - 1 : q[j].op = "SD"}
      same == {j \in older : q[j].computed /\ q[j].addr = q[i].addr}
      src == IF kind = "fwd" THEN LSQ_youngest(LSQ_fwdSources(q, i)) ELSE 0
  IN [kind |-> kind, id |-> ID,
      unknownAddr |-> \E j \in older : ~q[j].computed,
      unresolvedSame |-> \E j \in same : q[j].dtag # None,
      srcNearest |-> kind = "fwd" /\ src = LSQ_youngest(same),
      srcResolved |-> kind = "fwd" /\ q[src].computed /\ q[src].dtag = None
                      /\ q[src].addr = q[i].addr,
      value |-> IF kind = "fwd" THEN q[src].data ELSE NoneV]
NoMemEvent ==
  [kind |-> "none", id |-> None, unknownAddr |-> FALSE, unresolvedSame |-> FALSE,
   srcNearest |-> FALSE, srcResolved |-> FALSE, value |-> NoneV]

memoryStage(s) ==
  LET fwd == LSQ_doForwardsRet(s.LDSTQ)
      ld == LSQ_issueReadyLoadRet(s.LDSTQ)
  IN IF fwd >= 0
     THEN [s EXCEPT !.LDSTQ = LSQ_doForwards(s.LDSTQ),
                    !.output = updateOutput(s.output, s.cycle, fwd, 2),
                    !.hist.mem = MemEvent(s.LDSTQ, "fwd", fwd)]
     ELSE IF ld >= 0
     THEN IF ~LSQ_issueReadyLoadOK(s.LDSTQ)
          THEN [s EXCEPT !.crashed = TRUE, !.hist.mem = NoMemEvent]
          ELSE [s EXCEPT !.LDSTQ = LSQ_issueReadyLoad(s.LDSTQ, s.memory,
                                                      s.Params.LoadStoreUnit[2]),
                         !.output = updateOutput(s.output, s.cycle, ld, 2),
                         !.hist.mem = MemEvent(s.LDSTQ, "issue", ld)]
     ELSE [s EXCEPT !.hist.mem = NoMemEvent]

-----------------------------------------------------------------------------
(* writebackStage *)

ReadyUnits(fus) == {i \in 1 .. Len(fus) : FU_isResultReady(fus[i])}
\* within one class of units the strict "<" keeps the smallest ID
OldestUnit(fus) ==
  CHOOSE i \in ReadyUnits(fus) : \A j \in ReadyUnits(fus) : fus[i].id <= fus[j].id
\* the unit whose result is written back: the classes are tried in turn and
\* a later class is looked at only when no earlier class has a result
WinningFU(s) ==
  IF ReadyUnits(s.ALUIs) # {} THEN [kind |-> "ALUI", idx |-> OldestUnit(s.ALUIs)]
  ELSE IF ReadyUnits(s.ALUFPs) # {} THEN [kind |-> "ALUFP", idx |-> OldestUnit(s.ALUFPs)]
  ELSE IF ReadyUnits(s.MULTFPs) # {} THEN [kind |-> "MULTFP", idx |-> OldestUnit(s.MULTFPs)]
  ELSE IF LSQ_isResultReady(s.LDSTQ) THEN [kind |-> "LDSTQ", idx |-> 0]
  ELSE [kind |-> "none", idx |-> 0]

\* every result that is ready at Writeback, over all units (an observation)
AllReadyIDs(s) ==
  {s.ALUIs[i].id : i \in ReadyUnits(s.ALUIs)}
  \cup {s.ALUFPs[i].id : i \in ReadyUnits(s.ALUFPs)}
  \cup {s.MULTFPs[i].id : i \in ReadyUnits(s.MULTFPs)}
  \cup {s.LDSTQ.q[i].id : i \in LSQ_readyIdx(s.LDSTQ)}

\* the entries whose source waits on the tag, and the note of their being filled
\* by a call of update: consumer, tag, instruction whose result it is, value
Waiters(s, name) ==
  LET rs == s.RS_ALUIs \o s.RS_ALUFPs \o s.RS_MULTFPs
      q == s.LDSTQ.q
  IN IF name = None THEN {}
     ELSE {rs[i].id : i \in {j \in 1 .. Len(rs) : rs[j].q1 = name \/ rs[j].q2 = name}}
          \cup {q[i].id : i \in {j \in 1 .. Len(q) :
                                   \/ (~q[j].computed) /\ q[j].atag = name
                                   \/ q[j].op = "SD" /\ q[j].dtag = name}}
Filled(s, ID, name, value, by) ==
  s.hist.fills \cup {[c |-> x, tag |-> name, src |-> ID, val |-> value, by |-> by] :
                        x \in Waiters(s, name)}

\* the calls of update made in the current cycle: producing instruction, tag, value
OnCDB(s, ID, name, value) ==
  {e \in s.hist.cdb : e.cycle = s.cycle}
     \cup {[cycle |-> s.cycle, id |-> ID, tag |-> name, val |-> value]}

\* the result (ID, value) is broadcast to the ROB, the RS and the LSQ
broadcastAsCommit(s, ID, value) ==
  LET name == ROB_nameOf(s.ROB, ID)
  IN [s EXCEPT !.ROB = ROB_findAndUpdateEntry(s.ROB, ID, value),
               !.RS_ALUIs = RS_remove(RS_update(s.RS_ALUIs, name, value), ID),
               !.RS_ALUFPs = RS_remove(RS_update(s.RS_ALUFPs, name, value), ID),
               !.RS_MULTFPs = RS_remove(RS_update(s.RS_MULTFPs, name, value), ID),
               !.LDSTQ = LSQ_update(s.LDSTQ, name, value),
               !.hist.cdb = OnCDB(s, ID, name, value),
               !.hist.fills = Filled(s, ID, name, value, "writeback"),
               !.output = updateOutput(s.output, s.cycle, ID, 4)]

broadcast(s, ID, value) ==
  LET name == ROB_nameOf(s.ROB, ID)
  IN [s EXCEPT !.ROB = ROB_findAndUpdateEntry(s.ROB, ID, value),
               !.RS_ALUIs = RS_remove(RS_update(s.RS_ALUIs, name, value), ID),
               !.RS_ALUFPs = RS_remove(RS_update(s.RS_ALUFPs, name, value), ID),
               !.RS_MULTFPs = RS_remove(RS_update(s.RS_MULTFPs, name, value), ID),
               !.LDSTQ = LSQ_update(s.LDSTQ, name, value),
               !.hist.cdb = OnCDB(s, ID, name, value),
               !.hist.fills = Filled(s, ID, name, value, "writeback"),
               !.output = updateOutput(s.output, s.cycle, ID, 3)]

writebackStage(s) ==
  LET s1 == [s EXCEPT !.LDSTQ = LSQ_checkMMU(s.LDSTQ)]
      w == WinningFU(s1)
      obs == AllReadyIDs(s1)
      s2 == CASE w.kind = "ALUI" ->
                   broadcast([s1 EXCEPT !.ALUIs[w.idx] = FU_idle],
                             s1.ALUIs[w.idx].id, s1.ALUIs[w.idx].res)
              [] w.kind = "ALUFP" ->
                   broadcast([s1 EXCEPT !.ALUFPs[w.idx] = FU_idle],
                             s1.ALUFPs[w.idx].id, s1.ALUFPs[w.idx].res)
              [] w.kind = "MULTFP" ->
                   broadcast([s1 EXCEPT !.MULTFPs[w.idx] = FU_idle],
                             s1.MULTFPs[w.idx].id, s1.MULTFPs[w.idx].res)
              [] w.kind = "LDSTQ" ->
                   broadcast([s1 EXCEPT !.LDSTQ = LSQ_getResult(s1.LDSTQ)],
                             LSQ_getResultID(s1.LDSTQ), LSQ_getResultVal(s1.LDSTQ))
              [] OTHER -> s1
      winner == CASE w.kind = "ALUI" -> s1.ALUIs[w.idx].id
                  [] w.kind = "ALUFP" -> s1.ALUFPs[w.idx].id
                  [] w.kind = "MULTFP" -> s1.MULTFPs[w.idx].id
                  [] w.kind = "LDSTQ" -> LSQ_getResultID(s1.LDSTQ)
                  [] OTHER -> None
  IN [s2 EXCEPT !.hist.wb = [ready |-> obs, winner |-> winner]]

-----------------------------------------------------------------------------
(* commitStage *)

\* the head of the ROB is broadcast again, under the name "ROB" + its ID
rebroadcast(s) ==
  LET name == ROBName(ROB_headSlot(s.ROB).id)
      result == ROB_headSlot(s.ROB).val
  IN [s EXCEPT !.RS_ALUIs = RS_update(s.RS_ALUIs, name, result),
               !.RS_ALUFPs = RS_update(s.RS_ALUFPs, name, result),
               !.RS_MULTFPs = RS_update(s.RS_MULTFPs, name, result),
               !.LDSTQ = LSQ_update(s.LDSTQ, name, result),
               !.hist.cdb = OnCDB(s, ROB_headSlot(s.ROB).id, name, result),
               !.hist.fills = Filled(s, ROB_headSlot(s.ROB).id, name, result, "commit")]

ClearRATAlways(rat, result) == RAT_set(rat, result.dest, result.dest)
\* the RAT entry of the destination is cleared if it still names this slot
ClearRAT(rat, result) ==
  IF RAT_get(rat, result.dest) = ROBName(result.idx)
  THEN RAT_set(rat, result.dest, result.dest) ELSE rat

\* the head leaves the ROB; its commit cycle is recorded
retire(s, resultID, writeARF) ==
  LET result == ROB_headSlot(s.ROB)
  IN [s EXCEPT !.ROB = ROB_commit(s.ROB),
               !.RAT = ClearRAT(s.RAT, result),
               !.ARF = IF writeARF /\ ~IsBool(result.val)
                       THEN ARF_set(s.ARF, result.dest, result.val) ELSE s.ARF,
               !.output = updateOutput(s.output, s.cycle, resultID, 4),
               !.hist.commits = Append(s.hist.commits, resultID)]

commitStore(s, resultID) ==
  LET w == LSQ_issueReadyStoreMem(s.LDSTQ, s.memory)
  IN IF LSQ_issueReadyStoreRet(s.LDSTQ) < 0 THEN s
     ELSE IF ~w.ok THEN [s EXCEPT !.crashed = TRUE]
     ELSE retire(rebroadcast([s EXCEPT !.LDSTQ = LSQ_issueReadyStore(s.LDSTQ),
                                       !.memory = w.mem]),
                 resultID, FALSE)

commitOther(s, resultID) == retire(rebroadcast(s), resultID, TRUE)

\* the ROB head is a store that is still in the LSQ
IsStoreInLSQ(s, resultID) ==
  \E i \in 1 .. Len(s.LDSTQ.q) : s.LDSTQ.q[i].id = resultID /\ s.LDSTQ.q[i].op = "SD"

CanCommitNowIgnoresNew(s) == ROB_canCommit(s.ROB) # None
\* the head may commit: it is done and did not reach its last stage this cycle
CanCommitNow(s) ==
  ROB_canCommit(s.ROB) # None /\ ~isNew(s.output, s.cycle, ROB_canCommit(s.ROB))

commitHead(s) ==
  IF ~CanCommitNow(s) THEN s
  ELSE IF IsStoreInLSQ(s, ROB_canCommit(s.ROB)) THEN commitStore(s, ROB_canCommit(s.ROB))
  ELSE commitOther(s, ROB_canCommit(s.ROB))

commitStageDrainsTwo(s) == commitHead(commitHead(s))
commitStage(s) == commitHead(s)

-----------------------------------------------------------------------------
(* advanceTime, updateExitConditions and the deferred RAT checkpoint *)

advanceTime(s) ==
  [s EXCEPT !.cycle = s.cycle + 1,
            !.ALUIs = FUs_advance(s.ALUIs),
            !.ALUFPs = FUs_advance(s.ALUFPs),
            !.MULTFPs = FUs_advance(s.MULTFPs),
            !.LDSTQ = LSQ_advanceTime(s.LDSTQ)]

deferredSaveRATEveryCycle(s) ==
  [s EXCEPT !.branch = BU_saveRAT(s.branch, s.RATBID, RAT_getState(s.RAT)),
            !.saveRAT = FALSE]
deferredSaveRAT(s) ==
  IF s.saveRAT
  THEN [s EXCEPT !.branch = BU_saveRAT(s.branch, s.RATBID, RAT_getState(s.RAT)),
                 !.saveRAT = FALSE]
  ELSE s

endOfCycle(s) == deferredSaveRAT(updateExitConditions(advanceTime(s)))

\* one pass of the loop body of runSimulation
runCycle(s) ==
  endOfCycle(commitStage(writebackStage(memoryStage(checkBranchStage(
    executeStage(issueStage([s EXCEPT !.LDSTQ = LSQ_checkMMU(s.LDSTQ)])))))))

-----------------------------------------------------------------------------
(* Programs and configurations *)

IntReg(n) == n          \* "R<n>"
FPReg(n) == 4 + n       \* "F<n>"
R0 == IntReg(0)
R1 == IntReg(1)
R2 == IntReg(2)
R3 == IntReg(3)
F0 == FPReg(0)
F1 == FPReg(1)

ADDI(d, a, imm) == <<"ADDI", d, a, Lit(imm)>>
ADD(d, a, b) == <<"ADD", d, a, b>>
ADDD(d, a, b) == <<"ADD.D", d, a, b>>
MULTD(d, a, b) == <<"MULT.D", d, a, b>>
LD(t, k, base) == <<"LD", t, Lit(k), base>>
SD(t, k, base) == <<"SD", t, Lit(k), base>>
BEQ(a, b, k) == <<"BEQ", a, b, Lit(k)>>
BNE(a, b, k) == <<"BNE", a, b, Lit(k)>>

\* [rsSize, latency, count] of a unit class; [lsqSize, memLatency] of the LSQ
Config(rob, alui, alufp, multfp, lsu) ==
  [ROBEntries |-> rob, ALUI |-> alui, ALUFP |-> alufp, MULTFP |-> multfp,
   LoadStoreUnit |-> lsu]

PoolBranch == {ADDI(R1, R0, 1), BNE(R1, R0, 1), BEQ(R1, R0, 1), ADD(R2, R1, R1),
               SD(R2, 0, R1)}
PoolMemory == {ADDI(R1, R0, 1), SD(R2, 0, R1), LD(R3, 0, R1), LD(R3, 0, R0)}
PoolFloat == {ADDD(F1, F0, F0), MULTD(F1, F1, F0), ADD(R1, R2, R2), LD(F1, 0, R0)}
PoolRename == {BEQ(R0, R0, 1), SD(R2, 0, R0), ADDD(F1, F0, F0), ADDD(F1, F1, F1)}

Families ==
  { [pool |-> PoolBranch, len |-> MaxLen,
     cfgs |-> {Config(4, <<2, 1, 2>>, <<1, 1, 1>>, <<1, 1, 1>>, <<2, 1>>)}],
    [pool |-> PoolMemory, len |-> MaxLen,
     cfgs |-> {Config(4, <<2, 1, 1>>, <<1, 1, 1>>, <<1, 1, 1>>, <<3, 1>>),
               Config(3, <<1, 2, 1>>, <<1, 1, 1>>, <<1, 1, 1>>, <<2, 2>>)}],
    [pool |-> PoolFloat, len |-> MaxLen,
     cfgs |-> {Config(4, <<2, 1, 1>>, <<2, 2, 1>>, <<2, 3, 1>>, <<2, 1>>),
               Config(3, <<2, 1, 2>>, <<1, 1, 2>>, <<1, 2, 1>>, <<2, 2>>)}],
    [pool |-> PoolRename, len |-> MaxLen,
     cfgs |-> {Config(3, <<1, 1, 1>>, <<2, 1, 1>>, <<1, 1, 1>>, <<1, 1>>)}] }

Programs(pool, len) == [1 .. len -> pool]

ARF0 == [r \in Regs |-> CASE r = R2 -> IntV(7)
                          [] r = F0 -> FloatV(3)
                          [] r = F1 -> FloatV(0)
                          [] OTHER -> IntV(0)]

ZeroRegs == [r \in Regs |-> IF r \in FPRegs THEN FloatV(0) ELSE IntV(0)]

\* single programs, run next to the enumerated families
BNEScenario == <<ADDI(R1, R0, 1), BNE(R1, R0, 2), ADDI(R2, R0, 99), ADDI(R3, R0, 7)>>
\* a taken branch, one wrong-path instruction, then a short ADD, a slow MULT.D
\* and an ADD.D that consumes the product
SlowProducerScenario ==
  <<BEQ(R0, R0, 1), ADD(R1, R2, R2), ADD(R1, R2, R2), MULTD(F1, F1, F0), ADDD(F1, F1, F1)>>
\* a taken branch, then two stores and two dependent ADD.D
StoreAtHeadScenario ==
  <<BEQ(R0, R0, 1), SD(R2, 0, R0), SD(R2, 0, R0), ADDD(F1, F1, F1), ADDD(F1, F1, F1)>>
\* a taken branch in a ROB of two slots whose target increments the register
\* the branch compared
StaleRenameScenario ==
  <<ADDI(R1, R0, 1), BNE(R1, R0, 1), ADDI(R1, R0, 1), ADDI(R1, R1, 1)>>
\* three ADDs that wait for one ADDI, in front of two integer ALUs
TwoALUScenario ==
  <<ADDI(R1, R0, 1), ADD(R2, R1, R1), ADD(R2, R1, R1), ADD(R2, R1, R1)>>
Scenarios ==
  { [prog |-> TwoALUScenario, arf |-> ARF0,
     cfgs |-> {Config(4, <<4, 2, 2>>, <<1, 1, 1>>, <<1, 1, 1>>, <<1, 1>>)}],
    [prog |-> StaleRenameScenario, arf |-> ZeroRegs,
     cfgs |-> {Config(2, <<2, 1, 1>>, <<1, 1, 1>>, <<1, 1, 1>>, <<1, 1>>)}],
    [prog |-> BNEScenario, arf |-> ZeroRegs,
     cfgs |-> {Config(4, <<2, 1, 1>>, <<1, 1, 1>>, <<1, 1, 1>>, <<2, 1>>),
               Config(2, <<2, 2, 2>>, <<1, 1, 1>>, <<1, 1, 1>>, <<2, 1>>)}],
    [prog |-> SlowProducerScenario, arf |-> ARF0,
     cfgs |-> {Config(4, <<2, 1, 1>>, <<2, 1, 1>>, <<2, 4, 1>>, <<1, 1>>)}],
    [prog |-> StoreAtHeadScenario, arf |-> ARF0,
     cfgs |-> {Config(3, <<1, 1, 1>>, <<2, 1, 1>>, <<1, 1, 1>>, <<1, 1>>)}] }

NoProbe == [n |-> 0, addr |-> None, value |-> NoneV, err |-> "none",
            before |-> <<>>]
NoHist == [issued |-> {},
           lastIssue |-> [id |-> None, cycle |-> None, idx |-> None],
           stall |-> [cycle |-> None, idx |-> None, why |-> "none"],
           squashed |-> {}, sqB |-> {}, commits |-> <<>>,
           mem |-> NoMemEvent, wb |-> [ready |-> {}, winner |-> None],
           memLog |-> {}, restored |-> <<>>, probe |-> NoProbe,
           cdb |-> {}, deps |-> {}, fills |-> {},
           pos |-> <<>>, outcome |-> <<>>, disp |-> {},
           base |-> <<>>,
           rs |-> [n |-> 0, op |-> "none", tag |-> None, value |-> NoneV, id |-> None]]

-----------------------------------------------------------------------------
(* The state machine *)

Cur == [Params |-> Params, IQ |-> IQ, ROB |-> ROB, RAT |-> RAT, ARF |-> ARF,
        RS_ALUIs |-> RS_ALUIs, RS_ALUFPs |-> RS_ALUFPs, RS_MULTFPs |-> RS_MULTFPs,
        ALUIs |-> ALUIs, ALUFPs |-> ALUFPs, MULTFPs |-> MULTFPs, LDSTQ |-> LDSTQ,
        memory |-> memory, branch |-> branch, output |-> output, cycle |-> cycle,
        fetchOffset |-> fetchOffset, done |-> done, saveRAT |-> saveRAT,
        RATBID |-> RATBID, crashed |-> crashed, hist |-> hist]

\* a change of the memory contents is logged with the stage that made it
LogMemory(t) ==
  IF t.memory.memory = memory.memory THEN t.hist.memLog
  ELSE t.hist.memLog \cup
         {[stage |-> pc,
           headStoreDone |-> ROB.n > 0 /\ ROB_headSlot(ROB).done
                             /\ IsStoreInLSQ(Cur, ROB_headSlot(ROB).id),
           headNew |-> ROB.n > 0 /\ isNew(output, cycle, ROB_headSlot(ROB).id)]}

Become(t, nextpc) ==
  /\ Params' = t.Params /\ IQ' = t.IQ /\ ROB' = t.ROB /\ RAT' = t.RAT /\ ARF' = t.ARF
  /\ RS_ALUIs' = t.RS_ALUIs /\ RS_ALUFPs' = t.RS_ALUFPs /\ RS_MULTFPs' = t.RS_MULTFPs
  /\ ALUIs' = t.ALUIs /\ ALUFPs' = t.ALUFPs /\ MULTFPs' = t.MULTFPs
  /\ LDSTQ' = t.LDSTQ /\ memory' = t.memory /\ branch' = t.branch
  /\ output' = t.output /\ cycle' = t.cycle /\ fetchOffset' = t.fetchOffset
  /\ done' = t.done /\ saveRAT' = t.saveRAT /\ RATBID' = t.RATBID
  /\ crashed' = t.crashed
  /\ hist' = [t.hist EXCEPT !.memLog = LogMemory(t)]
  /\ pc' = nextpc

InitWithRegs(prog, cfg, arf) ==
  /\ Params = cfg @@ [Instructions |-> prog, RegFileInitData |-> arf]
  /\ IQ = [next |-> 0, total |-> 0]
  /\ ROB = ROB_new(cfg.ROBEntries)
  /\ RAT = RAT_new
  /\ ARF = arf
  /\ RS_ALUIs = <<>> /\ RS_ALUFPs = <<>> /\ RS_MULTFPs = <<>>
  /\ ALUIs = [i \in 1 .. cfg.ALUI[3] |-> FU_idle]
  /\ ALUFPs = [i \in 1 .. cfg.ALUFP[3] |-> FU_idle]
  /\ MULTFPs = [i \in 1 .. cfg.MULTFP[3] |-> FU_idle]
  /\ LDSTQ = LSQ_new
  /\ memory = Mem_new
  /\ branch = BU_new
  /\ output = <<>>
  /\ cycle = 0 /\ fetchOffset = 0 /\ done = FALSE /\ saveRAT = FALSE /\ RATBID = 0
  /\ pc = "issue" /\ crashed = FALSE
  /\ hist = NoHist

InitWith(prog, cfg) == InitWithRegs(prog, cfg, ARF0)

Init ==
  \/ \E fam \in Families : \E prog \in Programs(fam.pool, fam.len) :
        \E cfg \in fam.cfgs : InitWith(prog, cfg)
  \/ \E sc \in Scenarios : \E cfg \in sc.cfgs : InitWithRegs(sc.prog, cfg, sc.arf)

Running == ~done /\ ~crashed

\* the loop test, checkMMU and issueStage
IssueStage ==
  /\ pc = "issue" /\ Running
  /\ Become(issueStage([Cur EXCEPT !.LDSTQ = LSQ_checkMMU(LDSTQ)]), "execute")
ExecuteStage == pc = "execute" /\ Running /\ Become(executeStage(Cur), "branch")
CheckBranchStage == pc = "branch" /\ Running /\ Become(checkBranchStage(Cur), "memory")
MemoryStage == pc = "memory" /\ Running /\ Become(memoryStage(Cur), "writeback")
WritebackStage == pc = "writeback" /\ Running /\ Become(writebackStage(Cur), "commit")
CommitStage == pc = "commit" /\ Running /\ Become(commitStage(Cur), "advance")
\* advanceTime, updateExitConditions and the deferred saveRAT end the cycle
AdvanceTime ==
  /\ pc = "advance" /\ Running /\ cycle < MaxCycle
  /\ Become(endOfCycle(Cur), "issue")

Next == \/ IssueStage \/ ExecuteStage \/ CheckBranchStage \/ MemoryStage
        \/ WritebackStage \/ CommitStage \/ AdvanceTime

Spec == Init /\ [][Next]_vars

\* The memory unit on its own: writes at addresses around both ends of the
\* 256 bytes, with an integer and a float value
MaxWrites == 3
MemProbe == 5
ProbeAddrs == ((0 - MemProbe) .. MemProbe)
                \cup ((memory_max_length - MemProbe) .. (memory_max_length + MemProbe))
ProbeValues == {IntV(7), FloatV(3)}

MemInit == InitWithRegs(BNEScenario, Config(4, <<2, 1, 1>>, <<1, 1, 1>>, <<1, 1, 1>>, <<2, 1>>),
                        ZeroRegs)

mem_write(addr, value) ==
  LET w == Mem_write(memory, addr, value) IN
  /\ hist.probe.n < MaxWrites
  /\ memory' = w.mem
  /\ hist' = [hist EXCEPT !.probe = [n |-> @.n + 1, addr |-> addr, value |-> value,
                                     err |-> w.err, before |-> memory]]
  /\ UNCHANGED <<Params, IQ, ROB, RAT, ARF, RS_ALUIs, RS_ALUFPs, RS_MULTFPs, ALUIs,
                 ALUFPs, MULTFPs, LDSTQ, branch, output, cycle, fetchOffset,
                 done, saveRAT, RATBID, pc, crashed>>

MemWrite == \E addr \in ProbeAddrs : \E value \in ProbeValues : mem_write(addr, value)

NextMem == MemWrite

SpecMem == MemInit /\ [][NextMem]_vars

\* The reservation station on its own: entries are added with every
\* combination of tags, updated and removed, as the test at the end of
\* ReservationStation.py does
MaxRS == 2
RSTags == {ROBName(0), ROBName(1)}
RSValue == IntV(100)

RSInit == InitWith(TwoALUScenario, Config(4, <<MaxRS, 1, 1>>, <<1, 1, 1>>, <<1, 1, 1>>, <<1, 1>>))

RSFrame ==
  UNCHANGED <<Params, IQ, ROB, RAT, ARF, RS_ALUFPs, RS_MULTFPs, ALUIs, ALUFPs,
              MULTFPs, LDSTQ, memory, branch, output, cycle, fetchOffset, done,
              saveRAT, RATBID, pc, crashed>>

RSAdd ==
  \E q1 \in RSTags \cup {None} : \E q2 \in RSTags \cup {None} :
     /\ hist.rs.n < MaxRS /\ ~RS_isFull(RS_ALUIs, Params.ALUI[1])
     /\ RS_ALUIs' = RS_add(RS_ALUIs,
                           RSEntry(hist.rs.n, ROBName(hist.rs.n), "ADDI", q1, q2,
                                   IF q1 = None THEN IntV(12) ELSE NoneV,
                                   IF q2 = None THEN IntV(12) ELSE NoneV))
     /\ hist' = [hist EXCEPT !.rs = [n |-> @.n + 1, op |-> "add", tag |-> None,
                                     value |-> NoneV, id |-> hist.rs.n]]
     /\ RSFrame

RSUpdate ==
  \E tag \in RSTags :
     /\ RS_ALUIs' = RS_update(RS_ALUIs, tag, RSValue)
     /\ hist' = [hist EXCEPT !.rs = [n |-> @.n, op |-> "update", tag |-> tag,
                                     value |-> RSValue, id |-> None]]
     /\ RSFrame

RSRemove ==
  \E id \in 0 .. MaxRS :
     /\ RS_ALUIs' = RS_remove(RS_ALUIs, id)
     /\ hist' = [hist EXCEPT !.rs = [n |-> @.n, op |-> "remove", tag |-> None,
                                     value |-> NoneV, id |-> id]]
     /\ RSFrame

NextRS == RSAdd \/ RSUpdate \/ RSRemove

SpecRS == RSInit /\ [][NextRS]_vars

-----------------------------------------------------------------------------
(* Properties *)

Program == Params.Instructions
Committed == {x \in DOMAIN output : output[x][5] # None}
AllRS == RS_ALUIs \o RS_ALUFPs \o RS_MULTFPs
\* every instruction ID held by a structure of the core
HeldIDs ==
  RS_ids(AllRS) \cup FUs_ids(ALUIs) \cup FUs_ids(ALUFPs) \cup FUs_ids(MULTFPs)
  \cup LSQ_ids(LDSTQ) \cup (IF LDSTQ.port.busy THEN {LDSTQ.port.id} ELSE {})
  \cup ROB_ids(ROB) \cup DOMAIN output
\* the recorded stages of a completion record, in pipeline order
Recorded(rec) == Filter(rec, [i \in 1 .. 5 |-> rec[i] # None])
StrictlyIncreasing(seq) == \A i \in 1 .. Len(seq) - 1 : seq[i] < seq[i + 1]
SetMin(S) == CHOOSE x \in S : \A y \in S : x <= y

\* C1: the recorded stage cycles of a committed instruction are strictly
\* increasing (issue < execute < memory < writeback < commit): no instruction
\* enters two stages in one cycle.
C1_StagesInDistinctCycles ==
  \A x \in Committed : StrictlyIncreasing(Recorded(output[x]))

\* C2: instructions commit in program order: for committed IDs i < j the
\* commit cycle of i is not later than the commit cycle of j.
C2_CommitInProgramOrder ==
  \A i \in Committed : \A j \in Committed : i < j => output[i][5] <= output[j][5]
C2_Witness ==
  \E i \in Committed : \E j \in Committed :
    i < j /\ output[i][4] # None /\ output[j][4] # None /\ output[j][4] < output[i][4]

\* C3: right after the Branch-check stage handled a misprediction of branch
\* B, no RS, unit, LSQ entry, memory operation in flight, ROB slot or
\* completion-record entry holds an instruction ID greater than B.
C3_NothingYoungerAfterSquash ==
  pc = "memory" => \A B \in hist.sqB : \A x \in HeldIDs : x <= B
C3_Witness ==
  /\ pc = "memory" /\ hist.sqB # {}
  /\ hist.lastIssue.cycle = cycle
  /\ hist.lastIssue.id \in hist.squashed
  /\ hist.lastIssue.id > SetMin(hist.sqB)

\* C4: when the simulation is done the RAT maps every register to itself.
C4_RATCleanWhenDone == done => \A r \in Regs : RAT[r] = r

\* C5: every RS entry has, for each source, exactly one of tag and value.
ExactlyOne(q, v) == (q # None) # (~IsNone(v))
C5_ExactlyOneOfTagValue ==
  \A i \in 1 .. Len(AllRS) :
    ExactlyOne(AllRS[i].q1, AllRS[i].v1) /\ ExactlyOne(AllRS[i].q2, AllRS[i].v2)

\* C6: when some unit has a result ready at Writeback, the result written
\* back is the one with the smallest instruction ID of all ready results.
C6_OldestReadyWins ==
  (pc = "commit" /\ hist.wb.ready # {}) => hist.wb.winner = SetMin(hist.wb.ready)

\* C7: a squashed instruction never commits (no commit cycle, no ARF or
\* memory write), and an instruction commits only after every older
\* instruction still in flight, so after every older branch was resolved.
CommitSet == {hist.commits[k] : k \in 1 .. Len(hist.commits)}
C7_SquashedNeverCommits ==
  /\ hist.squashed \cap CommitSet = {}
  /\ hist.squashed \cap DOMAIN output = {}
  /\ \A x \in CommitSet : \A b \in DOMAIN output : b < x => b \in CommitSet
C7_Witness == done /\ hist.squashed # {} /\ Len(hist.commits) >= 2

\* C8: memory changes only in the Commit stage, and only when the ROB head
\* is a store marked done that did not reach its last stage this cycle.
C8_MemoryWrittenOnlyAtCommit ==
  \A e \in hist.memLog : e.stage = "commit" /\ e.headStoreDone /\ ~e.headNew
C8_Witness == hist.memLog # {} /\ done

\* C9: a load is not issued to memory and is not forwarded to while an older
\* store has an uncomputed address or the same address with unresolved data;
\* a forward takes the data of the youngest older store with that address.
C9_LoadNeverPassesStore ==
  (pc = "writeback" /\ hist.mem.kind # "none") =>
     /\ ~hist.mem.unknownAddr
     /\ ~hist.mem.unresolvedSame
     /\ (hist.mem.kind = "fwd" => hist.mem.srcNearest /\ hist.mem.srcResolved)

\* C10: in a straight-line program, SD Rx,k(Ry) followed by LD Rz,k(Ry) with
\* no store in between, Ry unchanged in between and Rx never written brings
\* the stored value of Rx to Rz.
Writes(inst, r) == (~IsBranchOp(inst[1])) /\ inst[1] # "SD" /\ inst[2] = r
RoundTrip(i, j) ==
  /\ i < j /\ Program[i][1] = "SD" /\ Program[j][1] = "LD"
  /\ Program[i][3] = Program[j][3] /\ Program[i][4] = Program[j][4]
  /\ \A k \in 1 .. Len(Program) : ~IsBranchOp(Program[k][1])
  /\ \A k \in i .. j - 1 : ~Writes(Program[k], Program[i][4])
  /\ \A k \in i + 1 .. j - 1 : Program[k][1] # "SD"
  /\ \A k \in 1 .. Len(Program) : ~Writes(Program[k], Program[i][2])
  /\ \A k \in j + 1 .. Len(Program) : ~Writes(Program[k], Program[j][2])
C10_StoreLoadRoundTrip ==
  done => \A i \in 1 .. Len(Program) : \A j \in 1 .. Len(Program) :
            RoundTrip(i, j) => NumEq(ARF[Program[j][2]],
                                  Params.RegFileInitData[Program[i][2]])

\* C11: done is set at the end of a cycle exactly when the instruction queue
\* is empty at the fetch offset and every completion record has its commit
\* cycle; when done, every issued instruction is committed or squashed.
C11_DoneExactlyWhenDrained ==
  /\ pc = "issue" => (done <=> (nothingToFetch(Cur) /\ stillExecuting(Cur) = 0))
  /\ done => (hist.issued \ hist.squashed) \subseteq CommitSet
C11_Witness ==
  pc = "issue" /\ cycle > 0 /\ ~done /\ nothingToFetch(Cur) /\ stillExecuting(Cur) > 0

AtIssue == [Cur EXCEPT !.LDSTQ = LSQ_checkMMU(LDSTQ)]
IssueStalled ==
  /\ pc = "issue" /\ ~nothingToFetch(AtIssue)
  /\ \/ ROB_isFull(ROB)
     \/ TargetFull(AtIssue, IQ_peek(IQ, Program, fetchOffset)[1])
StallFrame ==
  IssueStalled =>
    /\ UNCHANGED <<IQ, fetchOffset, ROB, RAT, RS_ALUIs, RS_ALUFPs, RS_MULTFPs,
                   saveRAT, RATBID, output>>
    /\ LDSTQ' = AtIssue.LDSTQ
IssuedAfterStall ==
  /\ pc = "execute" /\ cycle > 0
  /\ hist.lastIssue.cycle = cycle /\ hist.stall.cycle = cycle - 1
C13_StallChangesNothing ==
  [][StallFrame /\ (IssuedAfterStall' => hist.lastIssue.idx' = hist.stall.idx')]_vars
\* ... unless a misprediction recovery in the cycle of the stall has
\* redirected the fetch
C13_StallChangesNothingUnlessSquash ==
  [][StallFrame /\ ((IssuedAfterStall' /\ hist.sqB' = {})
                      => hist.lastIssue.idx' = hist.stall.idx')]_vars
C13_Witness == IssuedAfterStall /\ hist.sqB = {} /\ hist.stall.why = "target"

\* C14: ADDI R1,R0,1; BNE R1,R0,2; ADDI R2,R0,99; ADDI R3,R0,7 with all
\* registers 0: the BNE is predicted not-taken and resolves taken, the ADDI
\* that writes R2 is squashed, and the run ends with R3 = 7 and R2 = 0.
RunsBNEScenario == Program = BNEScenario /\ Params.RegFileInitData = ZeroRegs
C14_MispredictedTakenBNE ==
  (RunsBNEScenario /\ done) =>
     /\ 1 \in DOMAIN hist.restored /\ 2 \in hist.squashed
     /\ NumEq(ARF[R3], IntV(7)) /\ NumEq(ARF[R2], IntV(0))

\* C15: a write at a byte address outside 0..255 ends in the out-of-range
\* error that names the address and leaves every memory word unchanged; a
\* write at any address inside 0..255 is accepted.
InsideMemory(addr) == addr >= 0 /\ addr < memory_max_length
C15_OutOfRangeWriteRejected ==
  hist.probe.n > 0 =>
    IF InsideMemory(hist.probe.addr) THEN hist.probe.err = "none"
    ELSE hist.probe.err = "range" /\ memory = hist.probe.before

\* C16: at most one instruction commits per cycle, stores included: no two
\* instruction IDs have the same commit cycle in the completion record.
CommitCycle(id) == output[id][5]
C16_OneCommitPerCycle ==
  \A a \in DOMAIN output : \A b \in DOMAIN output :
     (a # b /\ CommitCycle(a) # None) => CommitCycle(a) # CommitCycle(b)
C16_Witness ==
  \E a \in DOMAIN output : \E b \in DOMAIN output :
     /\ CommitCycle(a) # None /\ CommitCycle(b) = CommitCycle(a) + 1
     /\ hist.memLog # {} /\ Len(hist.commits) >= 3

\* C17: in each cycle at most one result (tag, value) is broadcast: the
\* update operations of the RS instances and the LSQ are driven by at most
\* one producing instruction per cycle.
C17_OneBroadcastPerCycle ==
  \A e \in hist.cdb : \A f \in hist.cdb :
     e.cycle = f.cycle => (e.id = f.id /\ e.tag = f.tag /\ e.val = f.val)

\* C18: the instruction IDs held in the ROB, read from head to tail, are
\* strictly increasing, no slot holds two instructions, and every issued
\* instruction that is neither committed nor squashed occupies exactly one
\* ROB slot, also after a misprediction purge has moved the tail back.
ROBWalk == [i \in 1 .. ROB.n |-> ROB.q[((ROB.head + i - 1) % Len(ROB.q)) + 1].id]
InFlight == hist.issued \ (CommitSet \cup hist.squashed)
SlotsOf(x) == {k \in 1 .. Len(ROB.q) : ROB.q[k].id = x}
C18_ROBOrderedAndComplete ==
  /\ ROB.tail = (ROB.head + ROB.n) % Len(ROB.q)
  /\ \A i \in 1 .. ROB.n : ROBWalk[i] # None
  /\ StrictlyIncreasing(ROBWalk)
  /\ Cardinality(ROB_ids(ROB)) = ROB.n
  /\ \A x \in InFlight : Cardinality(SlotsOf(x)) = 1
  /\ ROB_ids(ROB) = InFlight
C18_Witness ==
  /\ pc = "memory" /\ hist.sqB # {} /\ hist.lastIssue.id \in hist.squashed
  /\ ROB.n >= 2 /\ ROB.tail <= ROB.head

\* C19: a consumer never executes before its producer has written back: for
\* every committed instruction C one of whose source operands was renamed at
\* Issue to the ROB tag of an instruction P, the Execute cycle of C is at
\* least the Writeback cycle of P plus 1.
ExecuteCycle(id) == output[id][2]
WritebackCycle(id) == output[id][4]
AfterProducer(d) ==
  /\ d.p \in DOMAIN output /\ WritebackCycle(d.p) # None
  /\ ExecuteCycle(d.c) >= WritebackCycle(d.p) + 1
C19_ConsumerAfterProducer ==
  \A d \in hist.deps : d.c \in Committed => AfterProducer(d)

\* C20: for every terminating run the final ARF and the final memory equal
\* those of executing the program strictly sequentially in program order,
\* branches followed architecturally, with the same address formula.
SeqAddr(arf, inst) == 4 * PyInt(ARF_get(arf, inst[4])).n + LitVal(inst[3])
SeqStep(prog, st) ==
  LET inst == prog[st.pc + 1]
      name == inst[1]
  IN IF name = "LD"
     THEN [st EXCEPT !.pc = st.pc + 1,
                     !.arf = ARF_set(st.arf, inst[2], Mem_read(st.mem, SeqAddr(st.arf, inst)))]
     ELSE IF name = "SD"
     THEN [st EXCEPT !.pc = st.pc + 1,
                     !.mem = Mem_write(st.mem, SeqAddr(st.arf, inst),
                                       PyFloat(ARF_get(st.arf, inst[2]))).mem]
     ELSE IF IsBranchOp(name)
     THEN [st EXCEPT !.pc = IF ALU_compute(name, ARF_get(st.arf, inst[2]),
                                           ARF_get(st.arf, inst[3])).n = 1
                             THEN st.pc + 1 + LitVal(inst[4]) ELSE st.pc + 1]
     ELSE [st EXCEPT !.pc = st.pc + 1,
                     !.arf = ARF_set(st.arf, inst[2],
                                     ALU_compute(name, ARF_get(st.arf, inst[3]),
                                                 ARF_get(st.arf, inst[4])))]
RECURSIVE SeqRun(_, _, _)
SeqRun(prog, st, fuel) ==
  IF st.pc >= Len(prog) \/ fuel = 0 THEN st
  ELSE SeqRun(prog, SeqStep(prog, st), fuel - 1)
SeqFinal ==
  SeqRun(Program, [pc |-> 0, arf |-> Params.RegFileInitData, mem |-> Mem_new], Len(Program))
SameRegisters(arf) == \A r \in Regs : NumEq(ARF[r], arf[r])
SameMemory(mem) == \A w \in 0 .. MemWords - 1 : NumEq(memory.memory[w], mem.memory[w])
C20_SequentialResult ==
  (done /\ ~crashed) => (SameRegisters(SeqFinal.arf) /\ SameMemory(SeqFinal.mem))

\* C21: every issued instruction that is not squashed eventually commits and
\* the simulation eventually sets done; no operand waits forever on a ROB tag
\* whose producer wrote back before the consumer was issued.  A run that
\* meets this never comes to a cycle that starts with the simulation not
\* done and changes nothing but the cycle number.
SameButCycle(t) == [t EXCEPT !.hist = hist, !.cycle = cycle] = Cur
Hung == pc = "issue" /\ Running /\ SameButCycle(runCycle(Cur))
C21_EveryInstructionCommits == ~Hung

\* C22: whenever a source operand that waits on tag ROBk is filled (by the
\* Writeback broadcast, the commit-time re-broadcast or the Issue back-fill),
\* the value written is the result of the instruction that occupied ROB slot
\* k when the operand captured the tag: never the result of another
\* instruction, a store's empty value or a branch outcome.
FromProducer(f) ==
  /\ \E d \in hist.deps : d.c = f.c /\ d.tag = f.tag /\ d.p = f.src
  /\ ~IsNone(f.val) /\ ~IsBool(f.val)
C22_FilledByItsProducer == \A f \in hist.fills : FromProducer(f)

\* C23: the committed instruction stream follows architectural control flow:
\* after a committed branch at position p with offset k the next instruction
\* to commit is the one at p+1+k when the outcome is taken and the one at p+1
\* when it is not, whatever the prediction was; after a misprediction
\* fetchOffset is 0 and the IQ program counter is the recorded target.
PositionOf(id) == hist.pos[id]
IsBranchAt(p) == IsBranchOp(Program[p + 1][1])
Successor(id) ==
  PositionOf(id) + 1 + (IF hist.outcome[id] THEN LitVal(Program[PositionOf(id) + 1][4]) ELSE 0)
C23_CommitsFollowControlFlow ==
  /\ \A i \in 1 .. Len(hist.commits) - 1 :
       IsBranchAt(PositionOf(hist.commits[i]))
         => PositionOf(hist.commits[i + 1]) = Successor(hist.commits[i])
  /\ (pc = "memory" /\ hist.sqB # {})
       => /\ fetchOffset = 0
          /\ \E B \in hist.sqB : IQ.next = BU_getMispredictTarget(branch, B)
C23_Witness ==
  \E i \in 1 .. Len(hist.commits) - 1 : \E j \in 1 .. Len(hist.commits) - 1 :
     /\ IsBranchAt(PositionOf(hist.commits[i])) /\ hist.outcome[hist.commits[i]]
     /\ hist.commits[i] \in DOMAIN hist.restored
     /\ IsBranchAt(PositionOf(hist.commits[j])) /\ ~hist.outcome[hist.commits[j]]

\* C24: when a non-store, non-branch instruction in ROB slot k with
\* destination d commits, ARF[d] becomes its result, and RAT[d] is reset to d
\* only if it equals ROBk at that moment (otherwise the RAT is unchanged);
\* the commit of a branch or of a store leaves the ARF unchanged.
Committing == pc = "commit" /\ Len(hist.commits') = Len(hist.commits) + 1
OpOf(id) == Program[PositionOf(id) + 1][1]
CommitEffect ==
  LET head == ROB_headSlot(ROB)
  IN IF IsBranchOp(OpOf(head.id)) \/ OpOf(head.id) = "SD"
     THEN ARF' = ARF
     ELSE /\ ARF'[head.dest] = head.val
          /\ RAT' = IF RAT[head.dest] = ROBName(head.idx)
                    THEN [RAT EXCEPT ![head.dest] = head.dest] ELSE RAT
C24_CommitWritesARFAndClearsRAT == [][Committing => CommitEffect]_vars
LastCommit == hist.commits[Len(hist.commits)]
C24_Witness ==
  /\ pc = "advance" /\ Len(hist.commits) > 1
  /\ output[LastCommit][5] = cycle
  /\ ~IsBranchOp(OpOf(LastCommit)) /\ OpOf(LastCommit) # "SD"
  /\ IsROBName(RAT[Program[PositionOf(LastCommit) + 1][2]])
  /\ \E i \in 1 .. Len(hist.commits) - 1 : OpOf(hist.commits[i]) = "SD"

\* C25: issuing a non-branch, non-store instruction with destination d into
\* ROB slot k sets RAT[d] to ROBk and leaves every other RAT entry unchanged;
\* its source operands are resolved against the RAT as it was before the
\* rename, so an instruction whose destination is also its source does not
\* wait on itself; issuing a branch or a store leaves the RAT unchanged.
Issuing == pc = "issue" /\ hist.lastIssue' # hist.lastIssue
IssuedInst == Program[hist.lastIssue.idx' + 1]
Renames(inst) == ~IsBranchOp(inst[1]) /\ inst[1] # "SD"
\* the tags the entry just placed waits on, with the register each stands for
NewTags ==
  LET id == hist.lastIssue.id'
      inst == IssuedInst
      rs == RS_ALUIs' \o RS_ALUFPs' \o RS_MULTFPs'
  IN {[r |-> IF IsBranchOp(inst[1]) THEN inst[2] ELSE inst[3], tag |-> rs[i].q1] :
         i \in {j \in 1 .. Len(rs) : rs[j].id = id /\ rs[j].q1 # None}}
     \cup {[r |-> IF IsBranchOp(inst[1]) THEN inst[3] ELSE inst[4], tag |-> rs[i].q2] :
         i \in {j \in 1 .. Len(rs) : rs[j].id = id /\ rs[j].q2 # None}}
     \cup {[r |-> inst[4], tag |-> LDSTQ'.q[i].atag] :
         i \in {j \in 1 .. Len(LDSTQ'.q) : LDSTQ'.q[j].id = id /\ LDSTQ'.q[j].atag # None}}
     \cup {[r |-> inst[2], tag |-> LDSTQ'.q[i].dtag] :
         i \in {j \in 1 .. Len(LDSTQ'.q) :
                  /\ LDSTQ'.q[j].id = id /\ LDSTQ'.q[j].op = "SD"
                  /\ LDSTQ'.q[j].dtag # None}}
RenameFrame ==
  RAT' = IF Renames(IssuedInst)
         THEN [RAT EXCEPT ![IssuedInst[2]] = ROBName(ROB.tail)] ELSE RAT
ResolvedBeforeRename == \A t \in NewTags : t.tag = RAT[t.r]
WaitsOnItself == \E t \in NewTags : t.tag = ROBName(ROB.tail)
C25_RenameAtIssue ==
  [][Issuing => RenameFrame /\ ResolvedBeforeRename /\ ~WaitsOnItself]_vars

\* C26: an RS entry is dispatched only when both source values are present,
\* it is not marked executing and it was not issued in the current cycle;
\* each instruction is dispatched at most once and never onto two units; a
\* busy unit never accepts a dispatch; among the ready entries of one class
\* an entry inserted earlier is dispatched no later than a later one.
RSOf(kind) == CASE kind = "ALUI" -> RS_ALUIs [] kind = "ALUFP" -> RS_ALUFPs
                [] OTHER -> RS_MULTFPs
FUsOf(kind) == CASE kind = "ALUI" -> ALUIs [] kind = "ALUFP" -> ALUFPs
                 [] OTHER -> MULTFPs
DispatchedNow == hist.disp' \ hist.disp
Eligible(e) ==
  (~IsNone(e.v1)) /\ (~IsNone(e.v2)) /\ (~e.exec) /\ output[e.id][1] # cycle
DispatchRule ==
  \A d \in DispatchedNow :
    /\ ~FUsOf(d.kind)[d.unit].busy
    /\ \E j \in 1 .. Len(RSOf(d.kind)) :
         /\ RSOf(d.kind)[j].id = d.id
         /\ Eligible(RSOf(d.kind)[j])
         /\ \A i \in 1 .. j - 1 :
              Eligible(RSOf(d.kind)[i])
                => \E d2 \in DispatchedNow : d2.id = RSOf(d.kind)[i].id
DispatchedOnce == \A a \in hist.disp : \A b \in hist.disp : a.id = b.id => a = b
C26_DispatchRule ==
  [][pc = "execute" => (DispatchRule /\ DispatchedOnce')]_vars
\* a run in which two units of one class accepted in one cycle, at a moment
\* where a ready entry stays behind because the unit is still busy
C26_Witness ==
  /\ pc = "branch"
  /\ \E a \in hist.disp : \E b \in hist.disp :
       /\ a.cycle = b.cycle /\ a.kind = b.kind /\ a.unit # b.unit
  /\ \E c \in hist.disp : \E k \in {"ALUI", "ALUFP", "MULTFP"} :
       /\ c.cycle < cycle /\ c.kind = k /\ FUsOf(k)[c.unit].busy /\ FUsOf(k)[c.unit].id = c.id
       /\ \E j \in 1 .. Len(RSOf(k)) : Eligible(RSOf(k)[j])

\* C27: the effective byte address computed for a load or store is
\* 4*base + displacement, where base is the value of its base register, and
\* it is the same function of base whether the base was read from the ARF at
\* Issue, back-filled from a completed ROB head at Issue, or delivered later
\* by a CDB broadcast.
\* the base values delivered to instruction id, each with the way it came
DeliveredBase(id) ==
  (IF hist.base[id].tag = None
   THEN {[val |-> hist.base[id].val, by |-> "arf"]} ELSE {})
  \cup {[val |-> f.val, by |-> f.by] :
          f \in {g \in hist.fills : g.c = id /\ g.tag = hist.base[id].tag}}
C27_AddressFromBase ==
  \A i \in 1 .. Len(LDSTQ.q) :
     LDSTQ.q[i].computed =>
       /\ DeliveredBase(LDSTQ.q[i].id) # {}
       /\ \A b \in DeliveredBase(LDSTQ.q[i].id) :
            LDSTQ.q[i].addr = 4 * PyInt(b.val).n + LDSTQ.q[i].disp

\* C28: in every reachable state the ROB holds at most ROBEntries
\* instructions, each reservation station at most its configured size and the
\* LSQ at most its configured size; Issue adds an entry only after the
\* corresponding isFull check returned false; filling an empty reservation
\* station until isFull accepts exactly `size` entries.
WithinCapacity ==
  /\ ROB.n <= Params.ROBEntries
  /\ Cardinality({k \in 1 .. Len(ROB.q) : ROB.q[k].id # None}) <= Params.ROBEntries
  /\ Len(RS_ALUIs) <= Params.ALUI[1]
  /\ Len(RS_ALUFPs) <= Params.ALUFP[1]
  /\ Len(RS_MULTFPs) <= Params.MULTFP[1]
  /\ Len(LDSTQ.q) <= Params.LoadStoreUnit[1]
\* the number of add calls an RS accepts before isFull
RECURSIVE FillUntilFull(_, _, _)
FillUntilFull(rs, size, n) ==
  IF RS_isFull(rs, size) THEN n
  ELSE FillUntilFull(RS_add(rs, RSEntry(n, ROBName(n), "ADD", None, None, IntV(n), IntV(n))),
                     size, n + 1)
FillsToSize ==
  \A size \in {Params.ALUI[1], Params.ALUFP[1], Params.MULTFP[1], MaxLen} :
     FillUntilFull(<<>>, size, 0) = size
C28_WithinCapacity ==
  [][/\ WithinCapacity /\ WithinCapacity' /\ FillsToSize
     /\ Issuing => (~ROB_isFull(ROB) /\ ~TargetFull(AtIssue, IssuedInst[1]))]_vars
\* an instruction has just been issued into the last free place of its
\* structure and of the ROB, after a stall in the cycle before
C28_Witness ==
  /\ IssuedAfterStall
  /\ ROB.n = Params.ROBEntries
  /\ TargetFull(Cur, Program[hist.lastIssue.idx + 1][1])

\* C29: ReservationStation.update(tag, value) sets, in every entry, each
\* source whose tag equals `tag` to (tag = none, value = `value`) and changes
\* nothing else: sources with a different tag, the other fields, the order and
\* the number of entries are unchanged; update for every outstanding tag
\* leaves no entry with a tag, and remove(id) afterwards deletes exactly the
\* entry with that ID.
SourceUpdated(q, v, q2, v2, tag, value) ==
  IF q = tag THEN q2 = None /\ v2 = value ELSE q2 = q /\ v2 = v
UpdateEffect(rs, rs2, tag, value) ==
  /\ Len(rs2) = Len(rs)
  /\ \A i \in 1 .. Len(rs) :
       /\ rs2[i].id = rs[i].id /\ rs2[i].rob = rs[i].rob /\ rs2[i].op = rs[i].op
       /\ rs2[i].exec = rs[i].exec
       /\ SourceUpdated(rs[i].q1, rs[i].v1, rs2[i].q1, rs2[i].v1, tag, value)
       /\ SourceUpdated(rs[i].q2, rs[i].v2, rs2[i].q2, rs2[i].v2, tag, value)
OutstandingTags(rs) ==
  ({rs[i].q1 : i \in 1 .. Len(rs)} \cup {rs[i].q2 : i \in 1 .. Len(rs)}) \ {None}
RECURSIVE UpdateAll(_, _)
UpdateAll(rs, tags) ==
  IF tags = {} THEN rs
  ELSE LET t == CHOOSE x \in tags : TRUE
       IN UpdateAll(RS_update(rs, t, RSValue), tags \ {t})
Without(rs, id) == Filter(rs, [i \in 1 .. Len(rs) |-> rs[i].id # id])
AllUpdatedThenRemoved(rs) ==
  LET r == UpdateAll(rs, OutstandingTags(rs))
  IN /\ OutstandingTags(r) = {}
     /\ \A id \in 0 .. MaxRS : RS_remove(r, id) = Without(r, id)
C29_UpdateAndRemove ==
  [][/\ hist.rs.op' = "update"
          => UpdateEffect(RS_ALUIs, RS_ALUIs', hist.rs.tag', hist.rs.value')
     /\ hist.rs.op' = "remove" => RS_ALUIs' = Without(RS_ALUIs, hist.rs.id')
     /\ AllUpdatedThenRemoved(RS_ALUIs')]_vars
\* an update has just filled both sources of one entry and left the other
\* tag of another entry, and that entry's value, alone
C29_Witness ==
  /\ hist.rs.op = "update"
  /\ \E i \in 1 .. Len(RS_ALUIs) :
       /\ RS_ALUIs[i].q1 = None /\ RS_ALUIs[i].v1 = RSValue
       /\ RS_ALUIs[i].q2 = None /\ RS_ALUIs[i].v2 = RSValue
  /\ \E j \in 1 .. Len(RS_ALUIs) :
       RS_ALUIs[j].q1 \in RSTags \ {hist.rs.tag} /\ RS_ALUIs[j].v2 = IntV(12)

\* C30: a successful memory write to byte address a changes only the word at
\* index a/4: every other word keeps its previous value, for every sequence
\* of integer and floating-point writes (an integer write to a word written
\* with a float before included), and a following mem_read(a) returns the
\* value written.
WrittenWord == TruncDiv4(hist.probe.addr)
====
